---- MODULE Spec2Model ----
(***************************************************************************)
(* Route optimizer of the client-meeting application (RouteOptimizer       *)
(* component): the day's in-person meetings are split into fixed and       *)
(* flexible ones, flexible meetings are inserted into the gaps before      *)
(* fixed meetings, and the rest is ordered by nearest neighbour.           *)
(*                                                                         *)
(* Clock strings are sequences of one-character strings.  Distances are    *)
(* integers in quarter miles: every client of the model lies on one        *)
(* meridian, where the haversine distance is the radius times the          *)
(* difference of latitudes, and latitudes are given in quarter-mile arcs.  *)
(***************************************************************************)
EXTENDS Integers, Sequences, FiniteSets, TLC

VARIABLES meetings, selectedDate, isOptimizing, timer, optimizedRoute, routeInput,
          saving, loop, codec

vars == <<meetings, selectedDate, isOptimizing, timer, optimizedRoute, routeInput,
          saving, loop, codec>>

----------------------------------------------------------------------------
(* Bounds of the model *)

MaxMeetings == 3

\* the minutes formatted on their own go up to MaxMinutes: past midnight and
\* past 99 hours
MaxMinutes == 6100

----------------------------------------------------------------------------
(* Strings *)

Digits == <<"0", "1", "2", "3", "4", "5", "6", "7", "8", "9">>

DigitValue(c) == CHOOSE n \in 0..9 : Digits[n + 1] = c

\* an optional property that is absent (undefined)
Undefined == <<>>

\* null, for the current location before the first stop
Null == <<>>

Abs(x) == IF x < 0 THEN -x ELSE x

\* String(n) for an integer n >= 0
RECURSIVE toString(_)
toString(n) ==
  IF n < 10 THEN <<Digits[n + 1]>>
  ELSE toString(n \div 10) \o <<Digits[(n % 10) + 1]>>

\* s.padStart(2, '0')
padStart2(s) ==
  IF Len(s) >= 2 THEN s
  ELSE IF Len(s) = 1 THEN <<"0">> \o s
  ELSE <<"0", "0">>

\* time.split(':')
RECURSIVE split(_)
split(s) ==
  IF \A i \in 1..Len(s) : s[i] # ":" THEN <<s>>
  ELSE LET k == CHOOSE i \in 1..Len(s) :
                   /\ s[i] = ":"
                   /\ \A j \in 1..(i - 1) : s[j] # ":"
       IN <<SubSeq(s, 1, k - 1)>> \o split(SubSeq(s, k + 1, Len(s)))

\* Number(s) for a string of decimal digits; Number('') is 0
RECURSIVE Number(_)
Number(s) ==
  IF Len(s) = 0 THEN 0
  ELSE 10 * Number(SubSeq(s, 1, Len(s) - 1)) + DigitValue(s[Len(s)])

\* rank of a character in the collation used by localeCompare:
\* punctuation sorts before the digits
CharRank(c) == IF c = ":" THEN 0 ELSE 1 + DigitValue(c)

\* a.localeCompare(b): negative, zero or positive
RECURSIVE localeCompare(_, _)
localeCompare(a, b) ==
  IF Len(a) = 0 /\ Len(b) = 0 THEN 0
  ELSE IF Len(a) = 0 THEN -1
  ELSE IF Len(b) = 0 THEN 1
  ELSE IF CharRank(a[1]) < CharRank(b[1]) THEN -1
  ELSE IF CharRank(a[1]) > CharRank(b[1]) THEN 1
  ELSE localeCompare(Tail(a), Tail(b))

----------------------------------------------------------------------------
(* TimeCodec *)

\* Parse time string to minutes from midnight
timeToMinutes(time) ==
  LET parts == split(time)
      hours == Number(parts[1])
      minutes == Number(parts[2])
  IN hours * 60 + minutes

\* minutesToTime with the hours reduced modulo 24
minutesToTimeWrapped(minutes) ==
  LET hours == (minutes \div 60) % 24
      mins == minutes % 60
  IN padStart2(toString(hours)) \o <<":">> \o padStart2(toString(mins))

\* Convert minutes from midnight to time string
minutesToTime(minutes) ==
  LET hours == minutes \div 60
      mins == minutes % 60
  IN padStart2(toString(hours)) \o <<":">> \o padStart2(toString(mins))

----------------------------------------------------------------------------
(* GeoMetrics *)

\* assumed average speed, miles per hour
Speed == 30

\* great-circle distance of two points on one meridian, in quarter miles
calculateDistance(lat1, lon1, lat2, lon2) == Abs(lat2 - lat1)

\* Math.round(dist / 30 * 60) for dist in quarter miles, that is
\* floor(dist * 60 / (4 * 30) + 1/2): Math.round rounds a half up
calculateTravelTime(dist) == (dist * 60 + 2 * Speed) \div (4 * Speed)

\* the initial value of a running minimum
Infinity == 1000000

----------------------------------------------------------------------------
(* Clients *)

ClientIds == {"c1", "c2", "c3", "c4"}

\* the client records known to the application: id, latitude, longitude;
\* c4 is 500 miles from c1
clients ==
  <<[id |-> "c1", latitude |-> 0, longitude |-> 0],
    [id |-> "c2", latitude |-> 3, longitude |-> 0],
    [id |-> "c3", latitude |-> 42, longitude |-> 0],
    [id |-> "c4", latitude |-> 2000, longitude |-> 0]>>

\* a client id no client record carries (the client was deleted)
GoneClient == "gone"

\* clients.find(c => c.id === clientId), or Undefined
getClientById(clientId) ==
  IF \E i \in 1..Len(clients) : clients[i].id = clientId
  THEN clients[CHOOSE i \in 1..Len(clients) :
                  /\ clients[i].id = clientId
                  /\ \A j \in 1..(i - 1) : clients[j].id # clientId]
  ELSE Undefined

\* mc.client is truthy
HasClient(m) == \E i \in 1..Len(clients) : clients[i].id = m.clientId

\* { lat: client.latitude, lon: client.longitude }
LocationOf(m) ==
  <<getClientById(m.clientId).latitude, getClientById(m.clientId).longitude>>

----------------------------------------------------------------------------
(* Meetings of the selected day *)

\* the filter of dayMeetings: the selected date, in person, not cancelled
Eligible(m, date) ==
  m.date = date /\ m.type = "in-person" /\ m.status # "cancelled"

\* sortByStartTime that leaves the array as it is
sortByStartTimeNone(s) == s

\* Array.prototype.sort with (a, b) => a.startTime.localeCompare(b.startTime);
\* the sort is stable: an element goes after the elements that do not
\* compare greater than it
RECURSIVE sortByStartTime(_)
sortByStartTime(s) ==
  IF Len(s) <= 1 THEN s
  ELSE LET init == sortByStartTime(SubSeq(s, 1, Len(s) - 1))
           x == s[Len(s)]
           k == Cardinality({i \in 1..Len(init) :
                   localeCompare(init[i].startTime, x.startTime) <= 0})
       IN SubSeq(init, 1, k) \o <<x>> \o SubSeq(init, k + 1, Len(init))

\* Get only in-person meetings for route optimization
dayMeetings(ms, date) ==
  sortByStartTime(SelectSeq(ms, LAMBDA m : Eligible(m, date)))

\* meetingClients: the meetings whose client is found
meetingClients(dm) == SelectSeq(dm, HasClient)

----------------------------------------------------------------------------
(* Stops of a plan: a meeting with the optional optimized window *)

\* UnchangedStop with a flexible meeting placed at the day start
UnchangedStopPlaced(m) ==
  [id |-> m.id, clientId |-> m.clientId, date |-> m.date,
   startTime |-> m.startTime, endTime |-> m.endTime,
   status |-> m.status, type |-> m.type, flexibleTime |-> m.flexibleTime,
   optimizedStartTime |-> IF m.flexibleTime THEN minutesToTime(8 * 60)
                          ELSE Undefined,
   optimizedEndTime |-> IF m.flexibleTime THEN minutesToTime(9 * 60)
                        ELSE Undefined,
   isFlexible |-> m.flexibleTime]

\* { ...m, isFlexible: m.flexibleTime }
UnchangedStop(m) ==
  [id |-> m.id, clientId |-> m.clientId, date |-> m.date,
   startTime |-> m.startTime, endTime |-> m.endTime,
   status |-> m.status, type |-> m.type, flexibleTime |-> m.flexibleTime,
   optimizedStartTime |-> Undefined, optimizedEndTime |-> Undefined,
   isFlexible |-> m.flexibleTime]

\* FixedStop with a start before the day start moved to the day start
FixedStopClamped(m) ==
  [id |-> m.id, clientId |-> m.clientId, date |-> m.date,
   startTime |-> IF timeToMinutes(m.startTime) < 8 * 60
                 THEN minutesToTime(8 * 60) ELSE m.startTime,
   endTime |-> m.endTime,
   status |-> m.status, type |-> m.type, flexibleTime |-> m.flexibleTime,
   optimizedStartTime |-> Undefined, optimizedEndTime |-> Undefined,
   isFlexible |-> FALSE]

\* { ...fixedMeeting.meeting, isFlexible: false }
FixedStop(m) ==
  [id |-> m.id, clientId |-> m.clientId, date |-> m.date,
   startTime |-> m.startTime, endTime |-> m.endTime,
   status |-> m.status, type |-> m.type, flexibleTime |-> m.flexibleTime,
   optimizedStartTime |-> Undefined, optimizedEndTime |-> Undefined,
   isFlexible |-> FALSE]

\* FlexibleStop without the flag
FlexibleStopUnflagged(m, start, end) ==
  [id |-> m.id, clientId |-> m.clientId, date |-> m.date,
   startTime |-> m.startTime, endTime |-> m.endTime,
   status |-> m.status, type |-> m.type, flexibleTime |-> m.flexibleTime,
   optimizedStartTime |-> minutesToTime(start),
   optimizedEndTime |-> minutesToTime(end),
   isFlexible |-> FALSE]

\* { ...meeting, optimizedStartTime: minutesToTime(start),
\*   optimizedEndTime: minutesToTime(end), isFlexible: true }
FlexibleStop(m, start, end) ==
  [id |-> m.id, clientId |-> m.clientId, date |-> m.date,
   startTime |-> m.startTime, endTime |-> m.endTime,
   status |-> m.status, type |-> m.type, flexibleTime |-> m.flexibleTime,
   optimizedStartTime |-> minutesToTime(start),
   optimizedEndTime |-> minutesToTime(end),
   isFlexible |-> TRUE]

\* the assumed length of a flexible meeting, minutes
meetingDuration == 60

\* dayStart that moves on by an hour once a route has been computed
dayStartCarried == IF routeInput = <<>> THEN 8 * 60 ELSE 9 * 60

\* Start at 8 AM, minutes
dayStart == 8 * 60

\* splice that removes nothing
spliceNone(s, idx) == s

\* array.splice(idx, 1), for idx counted from 1
splice(s, idx) == SubSeq(s, 1, idx - 1) \o SubSeq(s, idx + 1, Len(s))

----------------------------------------------------------------------------
(* optimizeFlexibleOnly: no fixed meetings *)

\* NearerFlexibleOnly with <= for <
NearerFlexibleOnlyOrEqual(dist, nearestDist) == dist <= nearestDist

\* dist < nearestDist
NearerFlexibleOnly(dist, nearestDist) == dist < nearestDist

\* the forEach over unvisited: nearestIdx and nearestDist after it
nearestUnvisited(current, unvisited) ==
  LET scan[k \in 0..Len(unvisited)] ==
        IF k = 0 THEN [nearestIdx |-> 1, nearestDist |-> Infinity]
        ELSE LET mc == unvisited[k]
                 prev == scan[k - 1]
             IN IF HasClient(current) /\ HasClient(mc)
                THEN LET dist == calculateDistance(
                                   LocationOf(current)[1], LocationOf(current)[2],
                                   LocationOf(mc)[1], LocationOf(mc)[2])
                     IN IF NearerFlexibleOnly(dist, prev.nearestDist)
                        THEN [nearestIdx |-> k, nearestDist |-> dist]
                        ELSE prev
                ELSE prev
  IN scan[Len(unvisited)]

\* the while loop over unvisited
RECURSIVE flexibleOnlyLoop(_, _, _)
flexibleOnlyLoop(current, unvisited, currentTime) ==
  IF Len(unvisited) = 0 THEN <<>>
  ELSE LET nearest == nearestUnvisited(current, unvisited)
           travelTime == calculateTravelTime(nearest.nearestDist)
           time == currentTime + travelTime
           next == unvisited[nearest.nearestIdx]
       IN <<FlexibleStop(next, time, time + meetingDuration)>>
          \o flexibleOnlyLoop(next, splice(unvisited, nearest.nearestIdx),
                              time + meetingDuration)

optimizeFlexibleOnly(flexibleWithClients) ==
  IF Len(flexibleWithClients) = 0 THEN <<>>
  ELSE LET current == Head(flexibleWithClients)
           unvisited == Tail(flexibleWithClients)
       IN <<FlexibleStop(current, dayStart, dayStart + meetingDuration)>>
          \o flexibleOnlyLoop(current, unvisited, dayStart + meetingDuration)

----------------------------------------------------------------------------
(* findBestFlexibleInsertions: fill the gap before a fixed meeting *)

\* InsertionLoopGuard with a margin of 30 minutes for 15
InsertionLoopGuardWide(remaining, currentTime, endTime) ==
  Len(remaining) > 0 /\ currentTime + meetingDuration + 30 <= endTime

\* InsertionLoopGuard without the margin of 15 minutes
InsertionLoopGuardNoMargin(remaining, currentTime, endTime) ==
  Len(remaining) > 0 /\ currentTime + meetingDuration <= endTime

\* the condition of the while loop
InsertionLoopGuard(remaining, currentTime, endTime) ==
  Len(remaining) > 0 /\ currentTime + meetingDuration + 15 <= endTime

\* distFromCurrent: 0 when there is no current location
DistFromCurrent(currentLoc, mc) ==
  IF currentLoc # Null
  THEN calculateDistance(currentLoc[1], currentLoc[2],
                         LocationOf(mc)[1], LocationOf(mc)[2])
  ELSE 0

\* distToNext: from the candidate to the next fixed meeting
DistToNext(mc, nextFixed) ==
  calculateDistance(LocationOf(mc)[1], LocationOf(mc)[2],
                    LocationOf(nextFixed)[1], LocationOf(nextFixed)[2])

\* twice the score distFromCurrent + distToNext * 0.5, to stay in the integers
Score(distFromCurrent, distToNext) == 2 * distFromCurrent + distToNext

\* TotalTime without the travel on to the next fixed meeting
TotalTimeNoTravelToNext(currentTime, distFromCurrent, distToNext) ==
  currentTime + calculateTravelTime(distFromCurrent) + meetingDuration

\* totalTime of a candidate
TotalTime(currentTime, distFromCurrent, distToNext) ==
  currentTime + calculateTravelTime(distFromCurrent) + meetingDuration
    + calculateTravelTime(distToNext)

\* BetterInsertion with <= for < on the scores
BetterInsertionOrEqual(totalTime, endTime, score, bestScore) ==
  totalTime <= endTime /\ score <= bestScore

\* totalTime <= endTime && score < bestScore
BetterInsertion(totalTime, endTime, score, bestScore) ==
  totalTime <= endTime /\ score < bestScore

\* the forEach over remaining: bestIdx after it, 0 when none was found
bestInsertionIdx(currentLoc, nextFixed, remaining, currentTime, endTime) ==
  LET scan[k \in 0..Len(remaining)] ==
        IF k = 0 THEN [bestIdx |-> 0, bestScore |-> Infinity]
        ELSE LET mc == remaining[k]
                 prev == scan[k - 1]
             IN IF ~HasClient(mc) THEN prev
                ELSE LET distFromCurrent == DistFromCurrent(currentLoc, mc)
                         distToNext == DistToNext(mc, nextFixed)
                         score == Score(distFromCurrent, distToNext)
                         totalTime == TotalTime(currentTime, distFromCurrent,
                                                distToNext)
                     IN IF BetterInsertion(totalTime, endTime, score,
                                           prev.bestScore)
                        THEN [bestIdx |-> k, bestScore |-> score]
                        ELSE prev
  IN scan[Len(remaining)].bestIdx

\* TravelToSelected that takes no time
TravelToSelectedNone(currentLoc, selected) == 0

\* the travel to the selected meeting: 0 when there is no current location
TravelToSelected(currentLoc, selected) ==
  IF currentLoc # Null
  THEN calculateTravelTime(calculateDistance(
         currentLoc[1], currentLoc[2],
         LocationOf(selected)[1], LocationOf(selected)[2]))
  ELSE 0

\* the while loop: the insertions, each with its meeting and its window
RECURSIVE insertionLoop(_, _, _, _, _)

\* the rest of a turn of the loop, once the forEach has left bestIdx
RECURSIVE insertSelected(_, _, _, _, _, _)

\* the selected meeting is placed at start; the loop goes on behind it
placeSelected(selected, nextFixed, rest, start, endTime) ==
  <<[meeting |-> selected, startTime |-> start,
     endTime |-> start + meetingDuration]>>
  \o insertionLoop(LocationOf(selected), nextFixed, rest,
                   start + meetingDuration, endTime)

insertSelected(currentLoc, nextFixed, remaining, currentTime, endTime, bestIdx) ==
  IF bestIdx = 0 THEN <<>>
  ELSE placeSelected(remaining[bestIdx], nextFixed, splice(remaining, bestIdx),
                     currentTime + TravelToSelected(currentLoc, remaining[bestIdx]),
                     endTime)

insertionLoop(currentLoc, nextFixed, remaining, currentTime, endTime) ==
  IF ~InsertionLoopGuard(remaining, currentTime, endTime) THEN <<>>
  ELSE insertSelected(currentLoc, nextFixed, remaining, currentTime, endTime,
                      bestInsertionIdx(currentLoc, nextFixed, remaining,
                                       currentTime, endTime))

findBestFlexibleInsertions(currentLocation, nextFixed, flexibleMeetings, startTime, endTime) ==
  insertionLoop(currentLocation, nextFixed, flexibleMeetings, startTime, endTime)

----------------------------------------------------------------------------
(* optimizeRemainingFlexible: the flexible meetings left after the last    *)
(* fixed meeting                                                           *)

\* LeftoverStart with the buffer subtracted
LeftoverStartEarly(startTime) == startTime - 15

\* LeftoverStart without the buffer
LeftoverStartNoBuffer(startTime) == startTime

\* 15 min buffer after last fixed meeting
LeftoverStart(startTime) == startTime + 15

\* dist < nearestDist
NearerRemaining(dist, nearestDist) == dist < nearestDist

\* the forEach over remaining: nearestIdx and nearestDist after it
nearestRemaining(currentLoc, remaining) ==
  LET scan[k \in 0..Len(remaining)] ==
        IF k = 0 THEN [nearestIdx |-> 1, nearestDist |-> Infinity]
        ELSE LET mc == remaining[k]
                 prev == scan[k - 1]
             IN IF currentLoc # Null /\ HasClient(mc)
                THEN LET dist == calculateDistance(
                                   currentLoc[1], currentLoc[2],
                                   LocationOf(mc)[1], LocationOf(mc)[2])
                     IN IF NearerRemaining(dist, prev.nearestDist)
                        THEN [nearestIdx |-> k, nearestDist |-> dist]
                        ELSE prev
                ELSE IF currentLoc = Null /\ HasClient(mc)
                THEN [nearestIdx |-> k, nearestDist |-> 0]
                ELSE prev
  IN scan[Len(remaining)]

\* the while loop over remaining
RECURSIVE remainingLoop(_, _, _)
remainingLoop(currentLoc, remaining, currentTime) ==
  IF Len(remaining) = 0 THEN <<>>
  ELSE LET nearest == nearestRemaining(currentLoc, remaining)
           selected == remaining[nearest.nearestIdx]
           travelTime == IF nearest.nearestDist > 0
                         THEN calculateTravelTime(nearest.nearestDist)
                         ELSE 0
           time == currentTime + travelTime
       IN <<FlexibleStop(selected, time, time + meetingDuration)>>
          \o remainingLoop(IF HasClient(selected) THEN LocationOf(selected)
                                                  ELSE currentLoc,
                           splice(remaining, nearest.nearestIdx),
                           time + meetingDuration)

optimizeRemainingFlexible(currentLocation, flexibleMeetings, startTime) ==
  remainingLoop(currentLocation, flexibleMeetings, LeftoverStart(startTime))

----------------------------------------------------------------------------
(* optimizeRoute: the callback of the one-second timer *)

\* WindowEnd without the buffer
WindowEndNoBuffer(fixedStartMinutes) == fixedStartMinutes

\* Leave 15 min buffer before fixed meeting
WindowEnd(fixedStartMinutes) == fixedStartMinutes - 15

\* availableTime > 30 && remainingFlexible.length > 0
GapOpen(availableTime, remainingFlexible) ==
  availableTime > 30 /\ Len(remainingFlexible) > 0

\* remainingFlexible.findIndex(f => f.meeting.id === id), 0 when not found
findIndex(remainingFlexible, id) ==
  IF \E i \in 1..Len(remainingFlexible) : remainingFlexible[i].id = id
  THEN CHOOSE i \in 1..Len(remainingFlexible) :
         /\ remainingFlexible[i].id = id
         /\ \A j \in 1..(i - 1) : remainingFlexible[j].id # id
  ELSE 0

\* the walk after an insertion was found at idx of remainingFlexible: the
\* stop is pushed, the meeting removed
insertionTaken(st, insertion, idx) ==
  [result |-> Append(st.result,
                FlexibleStop(insertion.meeting, insertion.startTime,
                             insertion.endTime)),
   currentTime |-> insertion.endTime,
   currentLocation |-> LocationOf(insertion.meeting),
   remainingFlexible |-> splice(st.remainingFlexible, idx)]

\* takeInsertion without the removal from remainingFlexible
takeInsertionNoRemoval(st, insertion) ==
  IF findIndex(st.remainingFlexible, insertion.meeting.id) # 0
  THEN [result |-> Append(st.result,
                     FlexibleStop(insertion.meeting, insertion.startTime,
                                  insertion.endTime)),
        currentTime |-> insertion.endTime,
        currentLocation |-> LocationOf(insertion.meeting),
        remainingFlexible |-> st.remainingFlexible]
  ELSE st

\* the state of the walk after one insertion is taken over
takeInsertion(st, insertion) ==
  IF findIndex(st.remainingFlexible, insertion.meeting.id) # 0
  THEN insertionTaken(st, insertion,
                      findIndex(st.remainingFlexible, insertion.meeting.id))
  ELSE st

\* for (const insertion of insertions)
RECURSIVE takeInsertions(_, _)
takeInsertions(st, insertions) ==
  IF Len(insertions) = 0 THEN st
  ELSE takeInsertions(takeInsertion(st, Head(insertions)), Tail(insertions))

\* the walk after the gap before the fixed meeting was looked at
fillGap(st, fixedMeeting, fixedStartMinutes) ==
  IF GapOpen(fixedStartMinutes - st.currentTime, st.remainingFlexible)
  THEN takeInsertions(st,
         findBestFlexibleInsertions(st.currentLocation, fixedMeeting,
           st.remainingFlexible, st.currentTime,
           WindowEnd(fixedStartMinutes)))
  ELSE st

\* pushFixed that leaves currentTime where it was
pushFixedNoAdvance(filled, fixedMeeting, fixedEndMinutes) ==
  [result |-> Append(filled.result, FixedStop(fixedMeeting)),
   currentTime |-> filled.currentTime,
   currentLocation |-> LocationOf(fixedMeeting),
   remainingFlexible |-> filled.remainingFlexible]

\* Add the fixed meeting
pushFixed(filled, fixedMeeting, fixedEndMinutes) ==
  [result |-> Append(filled.result, FixedStop(fixedMeeting)),
   currentTime |-> fixedEndMinutes,
   currentLocation |-> LocationOf(fixedMeeting),
   remainingFlexible |-> filled.remainingFlexible]

\* one turn of the loop over the fixed meetings
fixedStep(st, fixedMeeting) ==
  pushFixed(fillGap(st, fixedMeeting, timeToMinutes(fixedMeeting.startTime)),
            fixedMeeting, timeToMinutes(fixedMeeting.endTime))

\* for (let i = 0; i < fixedWithClients.length; i++)
RECURSIVE fixedLoop(_, _)
fixedLoop(st, fixedWithClients) ==
  IF Len(fixedWithClients) = 0 THEN st
  ELSE fixedLoop(fixedStep(st, Head(fixedWithClients)), Tail(fixedWithClients))

\* the walk before the first fixed meeting
walkStart(flexibleWithClients) ==
  [result |-> <<>>,
   currentTime |-> dayStart,
   currentLocation |-> Null,
   remainingFlexible |-> flexibleWithClients]

\* walkEnd that leaves out the remaining flexible meetings
walkEndNoLeftovers(st) == st.result

\* Add remaining flexible meetings after the last fixed meeting
walkEnd(st) ==
  IF Len(st.remainingFlexible) > 0
  THEN st.result \o optimizeRemainingFlexible(st.currentLocation,
                      st.remainingFlexible, st.currentTime)
  ELSE st.result

\* the route of two or more located meetings, fixed ones sorted by time
routeOfLocated(fixedWithClients, flexibleWithClients) ==
  IF Len(fixedWithClients) = 0
  THEN optimizeFlexibleOnly(flexibleWithClients)
  ELSE walkEnd(fixedLoop(walkStart(flexibleWithClients), fixedWithClients))

\* the route for the day's meetings dm with the located ones mcs
routeOfDay(dm, mcs) ==
  IF Len(mcs) <= 1
  THEN [i \in 1..Len(dm) |-> UnchangedStop(dm[i])]
  ELSE routeOfLocated(
         sortByStartTime(SelectSeq(mcs, LAMBDA m : ~m.flexibleTime)),
         SelectSeq(mcs, LAMBDA m : m.flexibleTime))

\* the route the timer callback stores, for the day's meetings dm
optimizedRouteOf(dm) == routeOfDay(dm, meetingClients(dm))

----------------------------------------------------------------------------
(* totalDistance: the length of the displayed sequence *)

\* legDistance with a missing client taken to be at latitude 0, longitude 0
legDistanceFromOrigin(m1, m2) ==
  calculateDistance(
    IF HasClient(m1) THEN LocationOf(m1)[1] ELSE 0,
    IF HasClient(m1) THEN LocationOf(m1)[2] ELSE 0,
    IF HasClient(m2) THEN LocationOf(m2)[1] ELSE 0,
    IF HasClient(m2) THEN LocationOf(m2)[2] ELSE 0)

\* what one turn of the loop adds to total
legDistance(m1, m2) ==
  IF HasClient(m1) /\ HasClient(m2)
  THEN calculateDistance(LocationOf(m1)[1], LocationOf(m1)[2],
                         LocationOf(m2)[1], LocationOf(m2)[2])
  ELSE 0

\* optimizedRoute.length > 0 ? optimizedRoute : dayMeetings
displayMeetingsOf(route, dm) == IF Len(route) > 0 THEN route ELSE dm

\* the loop over the consecutive pairs of displayMeetings
totalDistanceOf(displayMeetings) ==
  IF Len(displayMeetings) < 2 THEN 0
  ELSE LET total[i \in 0..(Len(displayMeetings) - 1)] ==
             IF i = 0 THEN 0
             ELSE total[i - 1] + legDistance(displayMeetings[i],
                                             displayMeetings[i + 1])
       IN total[Len(displayMeetings) - 1]

\* Math.round(totalDistance / 30 * 60)
totalTravelTimeOf(distance) == (distance * 60 + 2 * Speed) \div (4 * Speed)

----------------------------------------------------------------------------
(* The meetings the model starts from *)

MeetingIds == <<"m1", "m2", "m3", "m4", "m5", "m6">>

\* a flexible meeting is saved with the whole day as its window
FlexibleWindow ==
  [startTime |-> <<"0", "0", ":", "0", "0">>,
   endTime |-> <<"2", "3", ":", "5", "9">>]

\* windows of fixed meetings: Wa ends before the day start; Wb, Wd and We
\* overlap in a chain
MeetingOf(clientId, date, w, status, type, flexibleTime) ==
  [clientId |-> clientId, date |-> date,
   startTime |-> w.startTime, endTime |-> w.endTime,
   status |-> status, type |-> type, flexibleTime |-> flexibleTime]

Wa == [startTime |-> <<"0", "7", ":", "0", "0">>, endTime |-> <<"0", "7", ":", "2", "5">>]

Wb == [startTime |-> <<"0", "9", ":", "0", "0">>, endTime |-> <<"1", "0", ":", "3", "0">>]

Wd == [startTime |-> <<"1", "0", ":", "2", "0">>, endTime |-> <<"1", "1", ":", "2", "0">>]

We == [startTime |-> <<"1", "0", ":", "4", "0">>, endTime |-> <<"1", "1", ":", "4", "0">>]

\* the fixed meetings of the model: a client and a window
FixedChoices ==
  { <<"c1", Wa>>, <<"c2", Wa>>, <<"c1", Wb>>, <<"c3", Wb>>, <<GoneClient, Wb>>,
    <<"c1", Wd>>, <<"c1", We>>, <<"c2", We>> }

\* what a meeting of the model may be, but for its id
MeetingTemplates ==
  { MeetingOf(c, "d1", FlexibleWindow, "scheduled", "in-person", TRUE) :
      c \in {"c1", "c2", "c3", GoneClient} }
  \cup
  { MeetingOf(fc[1], "d1", fc[2], "scheduled", "in-person", FALSE) :
      fc \in FixedChoices }
  \cup
  { MeetingOf("c1", "d2", FlexibleWindow, "scheduled", "in-person", TRUE),
    MeetingOf("c1", "d1", FlexibleWindow, "scheduled", "virtual", TRUE),
    MeetingOf("c1", "d1", FlexibleWindow, "cancelled", "in-person", TRUE) }

WithId(t, i) ==
  [id |-> MeetingIds[i], clientId |-> t.clientId, date |-> t.date,
   startTime |-> t.startTime, endTime |-> t.endTime,
   status |-> t.status, type |-> t.type, flexibleTime |-> t.flexibleTime]

----------------------------------------------------------------------------
(* The state machine *)

\* no time was formatted or parsed on its own
NoCodec == [kind |-> "none"]

\* none of the while loops is being followed
NoLoop == [kind |-> "none"]

\* no run of handleUpdateMeetingTimes is under way
NotSaving == [updates |-> <<>>, next |-> 1, meetings |-> <<>>]

Init ==
  /\ \E n \in 0..MaxMeetings :
       \E f \in [1..n -> MeetingTemplates] :
         meetings = [i \in 1..n |-> WithId(f[i], i)]
  /\ selectedDate = "d1"
  /\ isOptimizing = FALSE
  /\ timer = <<>>
  /\ optimizedRoute = <<>>
  /\ routeInput = <<>>
  /\ saving = NotSaving
  /\ loop = NoLoop
  /\ codec = NoCodec

\* OptimizeClick with a button that is never disabled while optimizing
OptimizeClickWhileOptimizing ==
  /\ Len(dayMeetings(meetings, selectedDate)) >= 2
  /\ isOptimizing' = TRUE
  /\ timer' = <<dayMeetings(meetings, selectedDate)>>
  /\ UNCHANGED <<meetings, selectedDate, optimizedRoute, routeInput, saving, loop,
                 codec>>

\* the optimize button: disabled while optimizing or with fewer than two
\* meetings; the timer callback keeps the dayMeetings of this render
OptimizeClick ==
  /\ ~isOptimizing
  /\ Len(dayMeetings(meetings, selectedDate)) >= 2
  /\ isOptimizing' = TRUE
  /\ timer' = <<dayMeetings(meetings, selectedDate)>>
  /\ UNCHANGED <<meetings, selectedDate, optimizedRoute, routeInput, saving, loop,
                 codec>>

\* the timer callback: compute the route and store it
TimerFires ==
  /\ timer # <<>>
  /\ optimizedRoute' = optimizedRouteOf(timer[1])
  /\ routeInput' = timer[1]
  /\ isOptimizing' = FALSE
  /\ timer' = <<>>
  /\ UNCHANGED <<meetings, selectedDate, saving, loop, codec>>

\* the updates without the filter: one for every stop of the route, with
\* the stop's own times when it has no computed window
updatesOfEveryStop(route) ==
  [i \in 1..Len(route) |->
     [id |-> route[i].id,
      startTime |-> IF route[i].optimizedStartTime # Undefined
                    THEN route[i].optimizedStartTime ELSE route[i].startTime,
      endTime |-> IF route[i].optimizedEndTime # Undefined
                  THEN route[i].optimizedEndTime ELSE route[i].endTime]]

\* the updates of handleApplyOptimizedTimes: a new time for every stop of
\* the route with a computed window
updatesOf(route) ==
  LET withTimes == SelectSeq(route,
                     LAMBDA m : m.optimizedStartTime # Undefined
                                /\ m.optimizedEndTime # Undefined)
  IN [i \in 1..Len(withTimes) |->
        [id |-> withTimes[i].id,
         startTime |-> withTimes[i].optimizedStartTime,
         endTime |-> withTimes[i].optimizedEndTime]]

\* the apply button, shown when a stop of the route has a computed start:
\* handleUpdateMeetingTimes starts on the updates with the meetings of its
\* render; one run of it at a time
ApplyClick ==
  /\ Len(optimizedRoute) > 0
  /\ \E i \in 1..Len(optimizedRoute) :
       optimizedRoute[i].optimizedStartTime # Undefined
  /\ Len(updatesOf(optimizedRoute)) > 0
  /\ saving = NotSaving
  /\ saving' = [updates |-> updatesOf(optimizedRoute), next |-> 1,
                meetings |-> meetings]
  /\ UNCHANGED <<meetings, selectedDate, isOptimizing, timer, optimizedRoute,
                 routeInput, loop, codec>>

\* meetings.find(m => m.id === id) is truthy
found(ms, id) == \E i \in 1..Len(ms) : ms[i].id = id

\* meetings.find(m => m.id === id)
find(ms, id) ==
  ms[CHOOSE i \in 1..Len(ms) :
       /\ ms[i].id = id
       /\ \A j \in 1..(i - 1) : ms[j].id # id]

\* updatedMeeting that leaves flexibleTime as it was
updatedMeetingStillFlexible(meeting, update) ==
  [meeting EXCEPT !.startTime = update.startTime,
                  !.endTime = update.endTime]

\* updatedMeeting: the meeting with the new times, no longer flexible
updatedMeeting(meeting, update) ==
  [meeting EXCEPT !.startTime = update.startTime,
                  !.endTime = update.endTime,
                  !.flexibleTime = FALSE]

\* the loop of handleUpdateMeetingTimes is done, or goes on with the next
afterUpdate(run) ==
  IF run.next = Len(run.updates) THEN NotSaving
  ELSE [run EXCEPT !.next = run.next + 1]

\* prev.map(m => m.id === update.id ? updatedMeeting : m)
replaceMeeting(prev, update, updated) ==
  [i \in 1..Len(prev) |-> IF prev[i].id = update.id THEN updated ELSE prev[i]]

\* one turn of the loop: meetingsApi.update resolves and the meeting is
\* replaced in the state
SaveSucceeds ==
  /\ saving.next <= Len(saving.updates)
  /\ meetings' =
       IF found(saving.meetings, saving.updates[saving.next].id)
       THEN replaceMeeting(meetings, saving.updates[saving.next],
              updatedMeeting(find(saving.meetings, saving.updates[saving.next].id),
                             saving.updates[saving.next]))
       ELSE meetings
  /\ saving' = afterUpdate(saving)
  /\ UNCHANGED <<selectedDate, isOptimizing, timer, optimizedRoute, routeInput,
                 loop, codec>>

\* meetingsApi.update rejects and the loop goes on with the next update
SaveFailsGoesOn ==
  /\ saving.next <= Len(saving.updates)
  /\ found(saving.meetings, saving.updates[saving.next].id)
  /\ saving' = afterUpdate(saving)
  /\ UNCHANGED <<meetings, selectedDate, isOptimizing, timer, optimizedRoute,
                 routeInput, loop, codec>>

\* meetingsApi.update rejects: the catch ends the loop
SaveFails ==
  /\ saving.next <= Len(saving.updates)
  /\ found(saving.meetings, saving.updates[saving.next].id)
  /\ saving' = NotSaving
  /\ UNCHANGED <<meetings, selectedDate, isOptimizing, timer, optimizedRoute,
                 routeInput, loop, codec>>

Next == OptimizeClick \/ TimerFires

Spec == Init /\ [][Next]_vars

\* the meetings of the runs in which optimized times are applied
ApplyTemplates ==
  { MeetingOf(c, "d1", FlexibleWindow, "scheduled", "in-person", TRUE) :
      c \in {"c1", "c4", GoneClient} }
  \cup
  { MeetingOf("c1", "d1", Wb, "scheduled", "in-person", FALSE),
    MeetingOf("c1", "d1", Wd, "scheduled", "in-person", FALSE) }

ApplyInit ==
  /\ \E n \in 0..MaxMeetings :
       \E f \in [1..n -> ApplyTemplates] :
         meetings = [i \in 1..n |-> WithId(f[i], i)]
  /\ selectedDate = "d1"
  /\ isOptimizing = FALSE
  /\ timer = <<>>
  /\ optimizedRoute = <<>>
  /\ routeInput = <<>>
  /\ saving = NotSaving
  /\ loop = NoLoop
  /\ codec = NoCodec

ApplyNext == OptimizeClick \/ TimerFires \/ ApplyClick \/ SaveSucceeds \/ SaveFails

\* optimizing and applying the optimized times
ApplySpec == ApplyInit /\ [][ApplyNext]_vars

\* the callback of optimizeRoute run on the day's meetings of the render,
\* whatever their number: the function without the button in front of it
RouteCall ==
  /\ ~isOptimizing
  /\ timer = <<>>
  /\ optimizedRoute' = optimizedRouteOf(dayMeetings(meetings, selectedDate))
  /\ routeInput' = dayMeetings(meetings, selectedDate)
  /\ UNCHANGED <<meetings, selectedDate, isOptimizing, timer, saving, loop,
                 codec>>

\* the route computed for every day of the model, short days too
CallSpec == Init /\ [][RouteCall]_vars

----------------------------------------------------------------------------
(* One call of the timer callback followed turn by turn: loop holds the    *)
(* position of the call, the local variables of the loop it is in and the  *)
(* number of turns that loop has taken                                     *)

\* the meetings of the calls that are followed turn by turn
LoopTemplates ==
  { MeetingOf(c, "d1", FlexibleWindow, "scheduled", "in-person", TRUE) :
      c \in {"c1", "c3", GoneClient} }
  \cup
  { MeetingOf("c1", "d1", Wd, "scheduled", "in-person", FALSE),
    MeetingOf("c1", "d1", We, "scheduled", "in-person", FALSE) }

LoopInit ==
  /\ \E n \in 0..MaxMeetings :
       \E f \in [1..n -> LoopTemplates] :
         meetings = [i \in 1..n |-> WithId(f[i], i)]
  /\ selectedDate = "d1"
  /\ isOptimizing = FALSE
  /\ timer = <<>>
  /\ optimizedRoute = <<>>
  /\ routeInput = <<>>
  /\ saving = NotSaving
  /\ loop = NoLoop
  /\ codec = NoCodec

\* the call has returned result
returned(result) == [kind |-> "done", result |-> result]

\* optimizeFlexibleOnly up to its while loop: the first meeting is placed at
\* the day start
enterFlexibleOnly(flexibleWithClients) ==
  IF Len(flexibleWithClients) = 0 THEN returned(<<>>)
  ELSE [kind |-> "flexibleOnly",
        current |-> Head(flexibleWithClients),
        unvisited |-> Tail(flexibleWithClients),
        currentTime |-> dayStart + meetingDuration,
        result |-> <<FlexibleStop(Head(flexibleWithClients), dayStart,
                                  dayStart + meetingDuration)>>,
        turns |-> 0,
        size |-> Len(Tail(flexibleWithClients))]

\* the call before the loop over the fixed meetings
enterWalk(fixedWithClients, flexibleWithClients) ==
  IF Len(fixedWithClients) = 0
  THEN enterFlexibleOnly(flexibleWithClients)
  ELSE [kind |-> "walk", i |-> 1, fixedWithClients |-> fixedWithClients,
        st |-> walkStart(flexibleWithClients)]

\* the call up to its first loop, for the day's meetings dm with the located
\* ones mcs
enterCall(dm, mcs) ==
  IF Len(mcs) <= 1
  THEN returned([i \in 1..Len(dm) |-> UnchangedStop(dm[i])])
  ELSE enterWalk(sortByStartTime(SelectSeq(mcs, LAMBDA m : ~m.flexibleTime)),
                 SelectSeq(mcs, LAMBDA m : m.flexibleTime))

\* the call goes on to the position after; a call that has returned has
\* stored its route and is no longer optimizing
CallStep(after) ==
  /\ loop' = after
  /\ IF after.kind = "done"
     THEN optimizedRoute' = after.result /\ isOptimizing' = FALSE
     ELSE UNCHANGED <<optimizedRoute, isOptimizing>>

\* the timer fires and its callback is entered, with the dayMeetings of the
\* render that set the timer
CallStart ==
  /\ timer # <<>>
  /\ loop.kind \in {"none", "done"}
  /\ \E mcs \in {meetingClients(timer[1])} :
       \E after \in {enterCall(timer[1], mcs)} :
         CallStep(after)
  /\ routeInput' = timer[1]
  /\ timer' = <<>>
  /\ UNCHANGED <<meetings, selectedDate, saving, codec>>

\* no loop takes more turns than the model has meetings, and one more
TurnsLeft == loop.turns <= MaxMeetings

\* the local variables after one turn of the loop of optimizeFlexibleOnly
flexibleOnlyTurn(l, nearest, time) ==
  [kind |-> "flexibleOnly",
   current |-> l.unvisited[nearest.nearestIdx],
   unvisited |-> splice(l.unvisited, nearest.nearestIdx),
   currentTime |-> time + meetingDuration,
   result |-> Append(l.result,
                FlexibleStop(l.unvisited[nearest.nearestIdx], time,
                             time + meetingDuration)),
   turns |-> l.turns + 1,
   size |-> l.size]

\* the turn of the loop of optimizeFlexibleOnly that goes to the nearest
flexibleOnlyNearest(l, nearest) ==
  flexibleOnlyTurn(l, nearest,
                   l.currentTime + calculateTravelTime(nearest.nearestDist))

\* while (unvisited.length > 0): one turn
FlexibleOnlyTurn ==
  /\ loop.kind = "flexibleOnly"
  /\ Len(loop.unvisited) > 0
  /\ TurnsLeft
  /\ \E after \in {flexibleOnlyNearest(loop,
                        nearestUnvisited(loop.current, loop.unvisited))} :
       CallStep(after)
  /\ UNCHANGED <<meetings, selectedDate, timer, routeInput, saving, codec>>

\* while (unvisited.length > 0): the loop is left and the result returned
FlexibleOnlyExit ==
  /\ loop.kind = "flexibleOnly"
  /\ Len(loop.unvisited) = 0
  /\ \E after \in {returned(loop.result)} :
       CallStep(after)
  /\ UNCHANGED <<meetings, selectedDate, timer, routeInput, saving, codec>>

\* findBestFlexibleInsertions up to its while loop, called from the walk l
\* for the gap before fixedMeeting
enterInsertions(l, fixedMeeting, endTime) ==
  [kind |-> "insertions", i |-> l.i, fixedWithClients |-> l.fixedWithClients,
   st |-> l.st,
   currentLoc |-> l.st.currentLocation,
   nextFixed |-> fixedMeeting,
   remaining |-> l.st.remainingFlexible,
   currentTime |-> l.st.currentTime,
   endTime |-> endTime,
   insertions |-> <<>>,
   turns |-> 0,
   size |-> Len(l.st.remainingFlexible)]

\* the walk after the fixed meeting was added to the walk filled
afterFixed(l, filled, fixedMeeting) ==
  [kind |-> "walk", i |-> l.i + 1, fixedWithClients |-> l.fixedWithClients,
   st |-> pushFixed(filled, fixedMeeting, timeToMinutes(fixedMeeting.endTime))]

\* one turn of the loop over the fixed meetings, up to the gap filling
walkStep(l, fixedMeeting, fixedStartMinutes) ==
  IF GapOpen(fixedStartMinutes - l.st.currentTime, l.st.remainingFlexible)
  THEN enterInsertions(l, fixedMeeting, WindowEnd(fixedStartMinutes))
  ELSE afterFixed(l, l.st, fixedMeeting)

\* for (let i = 0; i < fixedWithClients.length; i++): one turn begins
WalkStep ==
  /\ loop.kind = "walk"
  /\ loop.i <= Len(loop.fixedWithClients)
  /\ \E after \in {walkStep(loop, loop.fixedWithClients[loop.i],
                               timeToMinutes(loop.fixedWithClients[loop.i].startTime))} :
       CallStep(after)
  /\ UNCHANGED <<meetings, selectedDate, timer, routeInput, saving, codec>>

\* the local variables after the selected meeting was inserted at start
insertionTurn(l, bestIdx, start) ==
  [l EXCEPT !.insertions = Append(@, [meeting |-> l.remaining[bestIdx],
                                      startTime |-> start,
                                      endTime |-> start + meetingDuration]),
            !.currentTime = start + meetingDuration,
            !.currentLoc = LocationOf(l.remaining[bestIdx]),
            !.remaining = splice(l.remaining, bestIdx),
            !.turns = l.turns + 1]

\* the turn of the loop of findBestFlexibleInsertions that found bestIdx
insertionFound(l, bestIdx) ==
  insertionTurn(l, bestIdx,
                l.currentTime + TravelToSelected(l.currentLoc, l.remaining[bestIdx]))

\* bestIdx of the turn the loop of findBestFlexibleInsertions is in
bestIdxOf(l) ==
  bestInsertionIdx(l.currentLoc, l.nextFixed, l.remaining, l.currentTime,
                   l.endTime)

\* the walk after the insertions of l were taken over and the fixed meeting
\* added
insertionsReturned(l) ==
  afterFixed(l, takeInsertions(l.st, l.insertions), l.nextFixed)

\* the while loop of findBestFlexibleInsertions: one turn that inserts
InsertionTurn ==
  /\ loop.kind = "insertions"
  /\ InsertionLoopGuard(loop.remaining, loop.currentTime, loop.endTime)
  /\ bestIdxOf(loop) # 0
  /\ TurnsLeft
  /\ \E after \in {insertionFound(loop, bestIdxOf(loop))} :
       CallStep(after)
  /\ UNCHANGED <<meetings, selectedDate, timer, routeInput, saving, codec>>

\* if (bestIdx === -1) break
InsertionBreak ==
  /\ loop.kind = "insertions"
  /\ InsertionLoopGuard(loop.remaining, loop.currentTime, loop.endTime)
  /\ bestIdxOf(loop) = 0
  /\ \E after \in {insertionsReturned(loop)} :
       CallStep(after)
  /\ UNCHANGED <<meetings, selectedDate, timer, routeInput, saving, codec>>

\* the condition of the while loop fails
InsertionExit ==
  /\ loop.kind = "insertions"
  /\ ~InsertionLoopGuard(loop.remaining, loop.currentTime, loop.endTime)
  /\ \E after \in {insertionsReturned(loop)} :
       CallStep(after)
  /\ UNCHANGED <<meetings, selectedDate, timer, routeInput, saving, codec>>

\* optimizeRemainingFlexible up to its while loop, called with the walk st
enterRemaining(st) ==
  [kind |-> "remaining",
   currentLoc |-> st.currentLocation,
   remaining |-> st.remainingFlexible,
   currentTime |-> LeftoverStart(st.currentTime),
   result |-> st.result,
   turns |-> 0,
   size |-> Len(st.remainingFlexible)]

\* the loop over the fixed meetings is over
walkOver(st) ==
  IF Len(st.remainingFlexible) > 0 THEN enterRemaining(st)
  ELSE returned(st.result)

\* Add remaining flexible meetings after the last fixed meeting
WalkEnd ==
  /\ loop.kind = "walk"
  /\ loop.i > Len(loop.fixedWithClients)
  /\ \E after \in {walkOver(loop.st)} :
       CallStep(after)
  /\ UNCHANGED <<meetings, selectedDate, timer, routeInput, saving, codec>>

\* the local variables after one turn of the loop of
\* optimizeRemainingFlexible
remainingTurn(l, nearest, time) ==
  [kind |-> "remaining",
   currentLoc |-> IF HasClient(l.remaining[nearest.nearestIdx])
                  THEN LocationOf(l.remaining[nearest.nearestIdx])
                  ELSE l.currentLoc,
   remaining |-> splice(l.remaining, nearest.nearestIdx),
   currentTime |-> time + meetingDuration,
   result |-> Append(l.result,
                FlexibleStop(l.remaining[nearest.nearestIdx], time,
                             time + meetingDuration)),
   turns |-> l.turns + 1,
   size |-> l.size]

\* the turn of the loop of optimizeRemainingFlexible that goes to the nearest
remainingNearest(l, nearest) ==
  remainingTurn(l, nearest,
                l.currentTime + (IF nearest.nearestDist > 0
                                 THEN calculateTravelTime(nearest.nearestDist)
                                 ELSE 0))

\* while (remaining.length > 0): one turn
RemainingTurn ==
  /\ loop.kind = "remaining"
  /\ Len(loop.remaining) > 0
  /\ TurnsLeft
  /\ \E after \in {remainingNearest(loop,
                        nearestRemaining(loop.currentLoc, loop.remaining))} :
       CallStep(after)
  /\ UNCHANGED <<meetings, selectedDate, timer, routeInput, saving, codec>>

\* while (remaining.length > 0): the loop is left and the result returned
RemainingExit ==
  /\ loop.kind = "remaining"
  /\ Len(loop.remaining) = 0
  /\ \E after \in {returned(loop.result)} :
       CallStep(after)
  /\ UNCHANGED <<meetings, selectedDate, timer, routeInput, saving, codec>>

\* the steps of the timer and of its callback
CallNext ==
  \/ CallStart
  \/ WalkStep
  \/ InsertionTurn
  \/ InsertionBreak
  \/ InsertionExit
  \/ WalkEnd
  \/ FlexibleOnlyTurn
  \/ FlexibleOnlyExit
  \/ RemainingTurn
  \/ RemainingExit

LoopNext == OptimizeClick \/ CallNext

\* a timer that is set fires, and its callback runs on without interruption:
\* a step of the callback that can be taken is taken; nobody has to click
LoopSpec == LoopInit /\ [][LoopNext]_vars /\ WF_vars(CallNext)

----------------------------------------------------------------------------
(* timeToMinutes and minutesToTime applied on their own *)

\* the string of a time input: two digits, a colon, two digits
clock(h, m) ==
  <<Digits[(h \div 10) + 1], Digits[(h % 10) + 1], ":",
    Digits[(m \div 10) + 1], Digits[(m % 10) + 1]>>

CodecInit ==
  /\ meetings = <<>>
  /\ selectedDate = "d1"
  /\ isOptimizing = FALSE
  /\ timer = <<>>
  /\ optimizedRoute = <<>>
  /\ routeInput = <<>>
  /\ saving = NotSaving
  /\ loop = NoLoop
  /\ codec = NoCodec

\* minutesToTime(minutes) is called
FormatCall ==
  /\ codec.kind = "none"
  /\ \E minutes \in 0..MaxMinutes :
       codec' = [kind |-> "formatted", minutes |-> minutes,
                 time |-> minutesToTime(minutes)]
  /\ UNCHANGED <<meetings, selectedDate, isOptimizing, timer, optimizedRoute,
                 routeInput, saving, loop>>

\* timeToMinutes(time) is called with the string of a time input
ParseCall ==
  /\ codec.kind = "none"
  /\ \E h \in 0..23 : \E m \in 0..59 :
       codec' = [kind |-> "parsed", time |-> clock(h, m),
                 minutes |-> timeToMinutes(clock(h, m))]
  /\ UNCHANGED <<meetings, selectedDate, isOptimizing, timer, optimizedRoute,
                 routeInput, saving, loop>>

CodecNext == FormatCall \/ ParseCall

\* one call of one of the two functions, for every input of the model
CodecSpec == CodecInit /\ [][CodecNext]_vars

----------------------------------------------------------------------------
(* The props of the component change while it is mounted: another date is  *)
(* selected, the status of a meeting is changed                            *)

\* the dates of the model
Dates == {"d1", "d2"}

\* the meetings of the runs in which the props change
ViewTemplates ==
  { MeetingOf(c, d, FlexibleWindow, "scheduled", "in-person", TRUE) :
      c \in {"c1", "c3"}, d \in Dates }
  \cup
  { MeetingOf("c1", "d1", Wd, "scheduled", "in-person", FALSE) }

ViewInit ==
  /\ \E n \in 0..MaxMeetings :
       \E f \in [1..n -> ViewTemplates] :
         meetings = [i \in 1..n |-> WithId(f[i], i)]
  /\ selectedDate = "d1"
  /\ isOptimizing = FALSE
  /\ timer = <<>>
  /\ optimizedRoute = <<>>
  /\ routeInput = <<>>
  /\ saving = NotSaving
  /\ loop = NoLoop
  /\ codec = NoCodec

\* setSelectedDate(date): the date input and the quick select buttons
SelectDate ==
  /\ \E date \in Dates \ {selectedDate} : selectedDate' = date
  /\ UNCHANGED <<meetings, isOptimizing, timer, optimizedRoute, routeInput,
                 saving, loop, codec>>

\* { ...m, status }
withStatus(ms, meetingId, status) ==
  [i \in 1..Len(ms) |->
     IF ms[i].id = meetingId THEN [ms[i] EXCEPT !.status = status] ELSE ms[i]]

\* handleMeetingStatusChange once meetingsApi.updateStatus has resolved
MeetingStatusChange ==
  /\ \E i \in 1..Len(meetings) :
       \E status \in {"scheduled", "cancelled"} \ {meetings[i].status} :
         meetings' = withStatus(meetings, meetings[i].id, status)
  /\ UNCHANGED <<selectedDate, isOptimizing, timer, optimizedRoute, routeInput,
                 saving, loop, codec>>

ViewNext == OptimizeClick \/ TimerFires \/ SelectDate \/ MeetingStatusChange

\* optimizing while the selection and the meetings change
ViewSpec == ViewInit /\ [][ViewNext]_vars

----------------------------------------------------------------------------
(* What the component shows *)

displayMeetings ==
  displayMeetingsOf(optimizedRoute, dayMeetings(meetings, selectedDate))

totalDistance == totalDistanceOf(displayMeetings)

totalTravelTime == totalTravelTimeOf(totalDistance)

----------------------------------------------------------------------------
(* Reading a plan *)

StopCount == Len(optimizedRoute)

\* the stop carries a computed window
HasWindow(s) ==
  s.optimizedStartTime # Undefined /\ s.optimizedEndTime # Undefined

\* the window a stop is displayed with, in minutes: the computed one when
\* there is one, the meeting's own otherwise
StartOf(s) ==
  IF HasWindow(s) THEN timeToMinutes(s.optimizedStartTime)
  ELSE timeToMinutes(s.startTime)

EndOf(s) ==
  IF HasWindow(s) THEN timeToMinutes(s.optimizedEndTime)
  ELSE timeToMinutes(s.endTime)

\* a stop with an assigned window: a fixed stop, or a flexible stop with a
\* computed window
Assigned(s) == s.isFlexible => HasWindow(s)

\* travel minutes between the clients of two meetings
TravelBetween(a, b) ==
  calculateTravelTime(Abs(LocationOf(a)[1] - LocationOf(b)[1]))

\* stop j is the first fixed stop after stop i
NextFixedStop(i, j) ==
  /\ i < j
  /\ ~optimizedRoute[j].isFlexible
  /\ \A k \in (i + 1)..(j - 1) : optimizedRoute[k].isFlexible

\* stop i was inserted into the gap before the fixed stop j
InsertedBefore(i, j) ==
  /\ HasWindow(optimizedRoute[i])
  /\ NextFixedStop(i, j)

----------------------------------------------------------------------------
(* C1: every fixed meeting of the input that appears in the plan carries   *)
(* its input startTime and endTime and no computed window, also when two   *)
(* fixed meetings overlap.                                                 *)

FixedTimePreservation ==
  \A i \in 1..StopCount : \A j \in 1..Len(routeInput) :
    (routeInput[j].id = optimizedRoute[i].id /\ ~routeInput[j].flexibleTime)
      => /\ optimizedRoute[i].startTime = routeInput[j].startTime
         /\ optimizedRoute[i].endTime = routeInput[j].endTime
         /\ optimizedRoute[i].optimizedStartTime = Undefined
         /\ optimizedRoute[i].optimizedEndTime = Undefined

\* a plan with two overlapping fixed stops, one of them before the day
\* start or not, and a flexible stop that was given a window
FixedTimePreservationWitness ==
  /\ \E i, j \in 1..StopCount :
       /\ i < j
       /\ ~optimizedRoute[i].isFlexible /\ ~optimizedRoute[j].isFlexible
       /\ StartOf(optimizedRoute[j]) < EndOf(optimizedRoute[i])
  /\ \E k \in 1..StopCount : HasWindow(optimizedRoute[k])

----------------------------------------------------------------------------
(* C2: every flexible meeting placed in the gap before a fixed meeting f   *)
(* ends early enough to travel to f: placement end + travel minutes to f   *)
(* <= f.start, for every placement of the gap.                             *)

GapFeasibility ==
  \A i, j \in 1..StopCount :
    InsertedBefore(i, j)
      => EndOf(optimizedRoute[i])
           + TravelBetween(optimizedRoute[i], optimizedRoute[j])
         <= StartOf(optimizedRoute[j])

\* two placements in one gap, the second one away from the fixed meeting
GapFeasibilityWitness ==
  \E i, j \in 1..StopCount :
    /\ InsertedBefore(i, j) /\ InsertedBefore(i + 1, j)
    /\ TravelBetween(optimizedRoute[i + 1], optimizedRoute[j]) > 0

----------------------------------------------------------------------------
(* C3: consecutive stops do not overlap.                                   *)

\* the claim as made: for every input, overlapping fixed meetings too,
\* stop[i].end <= stop[i+1].start for consecutive stops with assigned windows
NoOverlapAlways ==
  \A i \in 1..(StopCount - 1) :
    (Assigned(optimizedRoute[i]) /\ Assigned(optimizedRoute[i + 1]))
      => EndOf(optimizedRoute[i]) <= StartOf(optimizedRoute[i + 1])

\* each fixed stop ends no later than the next fixed stop starts
FixedStopsDisjoint ==
  \A i, j \in 1..StopCount :
    (~optimizedRoute[i].isFlexible /\ NextFixedStop(i, j))
      => EndOf(optimizedRoute[i]) <= StartOf(optimizedRoute[j])

\* C3 as amended: when the fixed stops do not overlap one another,
\* consecutive stops with assigned windows do not overlap, also when a
\* fixed meeting starts before 08:00
NoOverlapOfDisjointFixed == FixedStopsDisjoint => NoOverlapAlways

\* a fixed stop before the day start, a placement in the gap behind it, and
\* the next fixed stop
NoOverlapWitness ==
  /\ FixedStopsDisjoint
  /\ StopCount >= 3
  /\ ~optimizedRoute[1].isFlexible
  /\ StartOf(optimizedRoute[1]) < dayStart
  /\ HasWindow(optimizedRoute[2])
  /\ ~optimizedRoute[3].isFlexible

----------------------------------------------------------------------------
(* C4: the plan has no more stops than the input has meetings, every stop  *)
(* id is the id of exactly one input meeting, and no id is in the plan     *)
(* twice.                                                                  *)

CountConservation ==
  /\ StopCount <= Len(routeInput)
  /\ \A i \in 1..StopCount :
       Cardinality({j \in 1..Len(routeInput) :
                      routeInput[j].id = optimizedRoute[i].id}) = 1
  /\ \A i, k \in 1..StopCount :
       i # k => optimizedRoute[i].id # optimizedRoute[k].id

\* a plan with a placement in a gap, a fixed stop and a leftover behind it
CountConservationWitness ==
  \E i, j, k \in 1..StopCount :
    /\ InsertedBefore(i, j)
    /\ j < k
    /\ HasWindow(optimizedRoute[k])

----------------------------------------------------------------------------
(* The walk, read back from the plan *)

\* the ids of the stops before stop i
PlacedBefore(i) == {optimizedRoute[k].id : k \in 1..(i - 1)}

\* the unplaced located flexible meetings when the walk is about to place
\* stop i, in the order of the input
Pool(i) ==
  SelectSeq(routeInput,
            LAMBDA m : m.flexibleTime /\ HasClient(m) /\ m.id \notin PlacedBefore(i))

\* the located flexible meetings of the input
LocatedFlexible == Pool(1)

\* the input has a fixed meeting
HasFixed == \E j \in 1..Len(routeInput) : ~routeInput[j].flexibleTime

\* the plan was built by the walk over the fixed meetings: two located
\* meetings or more, one of them fixed
WalkPlan ==
  /\ Cardinality({j \in 1..Len(routeInput) : HasClient(routeInput[j])}) >= 2
  /\ \E j \in 1..Len(routeInput) :
       HasClient(routeInput[j]) /\ ~routeInput[j].flexibleTime

\* currentTime and currentLocation when the walk is about to place stop i
WalkTime(i) == IF i = 1 THEN dayStart ELSE EndOf(optimizedRoute[i - 1])

WalkLoc(i) == IF i = 1 THEN Null ELSE LocationOf(optimizedRoute[i - 1])

\* miles (in quarter miles) from a location, 0 from no location
DistFrom(loc, m) == IF loc = Null THEN 0 ELSE Abs(loc[1] - LocationOf(m)[1])

DistBetween(a, b) == Abs(LocationOf(a)[1] - LocationOf(b)[1])

\* candidate c fits the gap before the fixed stop f at this time and place
FeasibleAt(c, time, loc, f) ==
  time + calculateTravelTime(DistFrom(loc, c)) + 60
       + calculateTravelTime(DistBetween(c, f))
    <= StartOf(f) - 15

\* twice distFromCurrent + 0.5 * distToNextFixed
ScoreAt(c, loc, f) == 2 * DistFrom(loc, c) + DistBetween(c, f)

\* the place in the pool of the meeting with this id
PoolIndex(pool, id) == CHOOSE k \in 1..Len(pool) : pool[k].id = id

\* the last fixed stop of the plan
LastFixed ==
  CHOOSE j \in 1..StopCount :
    /\ ~optimizedRoute[j].isFlexible
    /\ \A k \in (j + 1)..StopCount : optimizedRoute[k].isFlexible

\* stop i is the pool's nearest meeting to the previous stop, the earliest
\* of the pool among the nearest
NearestOfPool(i) ==
  LET pool == Pool(i)
      kc == PoolIndex(pool, optimizedRoute[i].id)
      d == DistFrom(WalkLoc(i), optimizedRoute[i])
  IN /\ \E k \in 1..Len(pool) : pool[k].id = optimizedRoute[i].id
     /\ \A k \in 1..Len(pool) : d <= DistFrom(WalkLoc(i), pool[k])
     /\ \A k \in 1..Len(pool) : DistFrom(WalkLoc(i), pool[k]) = d => kc <= k

----------------------------------------------------------------------------
(* C5: a flexible meeting without a resolvable client, given together with *)
(* two or more located flexible meetings, is in the plan, behind every     *)
(* located flexible meeting, and starts when the stop before it ends.      *)

UnlocatedPlacedLast ==
  \A j \in 1..Len(routeInput) :
    ( /\ routeInput[j].flexibleTime
      /\ ~HasClient(routeInput[j])
      /\ Len(LocatedFlexible) >= 2 )
    => \E i \in 2..StopCount :
         /\ optimizedRoute[i].id = routeInput[j].id
         /\ \A k \in 1..StopCount :
              (optimizedRoute[k].isFlexible /\ HasClient(optimizedRoute[k]))
                => k < i
         /\ HasWindow(optimizedRoute[i])
         /\ StartOf(optimizedRoute[i]) = EndOf(optimizedRoute[i - 1])

----------------------------------------------------------------------------
(* C6: when the walk has filled the gap before a fixed meeting f (more     *)
(* than 30 minutes and an unplaced flexible meeting at its start), no      *)
(* unplaced candidate is left that is feasible at the final time and place.*)

\* the gap before the fixed stop j was handed to the insertion loop
GapProcessed(j) ==
  LET prev == {p \in 1..(j - 1) : ~optimizedRoute[p].isFlexible}
      p == IF prev = {} THEN 0 ELSE CHOOSE x \in prev : \A y \in prev : y <= x
      gapStart == IF p = 0 THEN dayStart ELSE EndOf(optimizedRoute[p])
  IN /\ StartOf(optimizedRoute[j]) - gapStart > 30
     /\ Len(Pool(p + 1)) > 0

\* a candidate is left that is still feasible for the gap before stop j
FeasibleLeft(j) ==
  \E k \in 1..Len(Pool(j)) :
    FeasibleAt(Pool(j)[k], WalkTime(j), WalkLoc(j), optimizedRoute[j])

\* the claim as made: the loop stops only when no candidate is feasible
GapExhaustive ==
  WalkPlan =>
    \A j \in 1..StopCount :
      (~optimizedRoute[j].isFlexible /\ GapProcessed(j)) => ~FeasibleLeft(j)

\* C6 as amended: the loop stops only when fewer than 60 + 15 minutes are
\* left to f.start - 15, or no unplaced candidate is feasible
GapExhaustiveUpToMargin ==
  WalkPlan =>
    \A j \in 1..StopCount :
      (~optimizedRoute[j].isFlexible /\ GapProcessed(j))
        => \/ WalkTime(j) + 60 + 15 > StartOf(optimizedRoute[j]) - 15
           \/ ~FeasibleLeft(j)

\* a gap that took one meeting and then stopped with time for another
\* left, because the meeting that is left is not feasible
GapExhaustiveWitness ==
  /\ WalkPlan
  /\ \E j \in 2..StopCount :
       /\ ~optimizedRoute[j].isFlexible
       /\ GapProcessed(j)
       /\ InsertedBefore(j - 1, j)
       /\ Len(Pool(j)) > 0
       /\ WalkTime(j) + 60 + 15 <= StartOf(optimizedRoute[j]) - 15
       /\ ~FeasibleLeft(j)

----------------------------------------------------------------------------
(* C7: each meeting the insertion loop takes is feasible and has the least *)
(* score distFromCurrent + 0.5 * distToNextFixed of the feasible unplaced  *)
(* candidates, the earliest in the pool among those of least score.        *)

\* the feasible candidates when stop i is chosen for the gap before stop j
FeasibleSet(i, j) ==
  {k \in 1..Len(Pool(i)) :
     FeasibleAt(Pool(i)[k], WalkTime(i), WalkLoc(i), optimizedRoute[j])}

LeastScoreChosen ==
  WalkPlan =>
    \A i, j \in 1..StopCount :
      InsertedBefore(i, j) =>
        LET pool == Pool(i)
            kc == PoolIndex(pool, optimizedRoute[i].id)
            sc == ScoreAt(optimizedRoute[i], WalkLoc(i), optimizedRoute[j])
        IN /\ \E k \in 1..Len(pool) : pool[k].id = optimizedRoute[i].id
           /\ kc \in FeasibleSet(i, j)
           /\ \A k \in FeasibleSet(i, j) :
                /\ sc <= ScoreAt(pool[k], WalkLoc(i), optimizedRoute[j])
                /\ ScoreAt(pool[k], WalkLoc(i), optimizedRoute[j]) = sc
                     => kc <= k

\* a choice among two feasible candidates of the same least score, and a
\* choice that passes over an earlier candidate of the pool
LeastScoreChosenWitness ==
  /\ WalkPlan
  /\ \E i, j \in 1..StopCount :
       /\ InsertedBefore(i, j)
       /\ \E k \in FeasibleSet(i, j) :
            /\ Pool(i)[k].id # optimizedRoute[i].id
            /\ ScoreAt(Pool(i)[k], WalkLoc(i), optimizedRoute[j])
                 = ScoreAt(optimizedRoute[i], WalkLoc(i), optimizedRoute[j])

----------------------------------------------------------------------------
(* C8: every flexible meeting inserted into the gap before a fixed meeting *)
(* f ends at least 15 minutes before f starts.                             *)

BufferBeforeFixed ==
  \A i, j \in 1..StopCount :
    InsertedBefore(i, j)
      => EndOf(optimizedRoute[i]) <= StartOf(optimizedRoute[j]) - 15

\* a placement that ends exactly 15 minutes before the fixed meeting
BufferBeforeFixedWitness ==
  \E i, j \in 1..StopCount :
    /\ InsertedBefore(i, j)
    /\ EndOf(optimizedRoute[i]) = StartOf(optimizedRoute[j]) - 15

----------------------------------------------------------------------------
(* C9: every located flexible meeting that no gap took is placed behind    *)
(* the last fixed stop, no earlier than 15 minutes after that stop ends,   *)
(* and these leftovers follow each other by nearest neighbour from the     *)
(* last fixed meeting's location.                                          *)

----------------------------------------------------------------------------
(* C10: without fixed meetings and with two located flexible meetings or   *)
(* more, the first stop is the first located flexible meeting of the input *)
(* at 08:00-09:00, and every later stop is the nearest unplaced meeting    *)
(* (the earliest of the pool among the nearest), starting at the previous  *)
(* end plus the travel minutes and lasting 60 minutes.                     *)

FlexibleOnlyInput == ~HasFixed /\ Len(LocatedFlexible) >= 2

NearestNeighbourOrder ==
  FlexibleOnlyInput =>
    /\ StopCount >= 2
    /\ optimizedRoute[1].id = LocatedFlexible[1].id
    /\ HasWindow(optimizedRoute[1])
    /\ StartOf(optimizedRoute[1]) = 480
    /\ EndOf(optimizedRoute[1]) = 540
    /\ \A i \in 2..StopCount :
         /\ HasWindow(optimizedRoute[i])
         /\ NearestOfPool(i)
         /\ StartOf(optimizedRoute[i])
              = EndOf(optimizedRoute[i - 1])
                + calculateTravelTime(DistFrom(WalkLoc(i), optimizedRoute[i]))
         /\ EndOf(optimizedRoute[i]) = StartOf(optimizedRoute[i]) + 60

\* three stops; the second one is not the next meeting of the input
NearestNeighbourWitness ==
  /\ FlexibleOnlyInput
  /\ StopCount >= 3
  /\ Pool(2)[1].id # optimizedRoute[2].id

----------------------------------------------------------------------------
(* C11: the fixed stops of the plan are in ascending order of their start  *)
(* minute, fixed meetings of equal start in their order in the input; and  *)
(* when every meeting of the input is fixed, the plan is the input sorted  *)
(* this way: every meeting is in it, none with a computed window.          *)

\* the place in the input of the meeting with this id
InputIndex(id) == CHOOSE j \in 1..Len(routeInput) : routeInput[j].id = id

\* the input has fixed meetings only
AllFixedInput == \A j \in 1..Len(routeInput) : ~routeInput[j].flexibleTime

\* fixed stops ascend by start minute, ties in the order of the input
FixedStopsAscending ==
  \A i, j \in 1..StopCount :
    (i < j /\ ~optimizedRoute[i].isFlexible /\ ~optimizedRoute[j].isFlexible)
      => \/ StartOf(optimizedRoute[i]) < StartOf(optimizedRoute[j])
         \/ /\ StartOf(optimizedRoute[i]) = StartOf(optimizedRoute[j])
            /\ InputIndex(optimizedRoute[i].id) < InputIndex(optimizedRoute[j].id)

\* the claim as made
FixedSortedPlan ==
  /\ FixedStopsAscending
  /\ AllFixedInput =>
       /\ StopCount = Len(routeInput)
       /\ \A j \in 1..Len(routeInput) :
            \E i \in 1..StopCount : optimizedRoute[i].id = routeInput[j].id
       /\ \A i \in 1..StopCount : ~HasWindow(optimizedRoute[i])

----------------------------------------------------------------------------
(* C12: a run of optimizeRoute on the day's meetings that the plan on      *)
(* display was computed from (same meetings in the same order, same        *)
(* clients, same date) stores the identical plan: the same stops in the    *)
(* same order with the same windows and flexible flags.                    *)

----------------------------------------------------------------------------
(* C14: every window computed for a flexible placement has its start and   *)
(* its end within 0..1439 minutes since midnight.                          *)

WindowsWithinDay ==
  \A i \in 1..StopCount :
    HasWindow(optimizedRoute[i])
      => /\ StartOf(optimizedRoute[i]) \in 0..1439
         /\ EndOf(optimizedRoute[i]) \in 0..1439

----------------------------------------------------------------------------
(* C13: the optimizer produces no plan from an input with a fixed meeting  *)
(* whose startTime or endTime is not HH:MM with an hour of 0..23 and a     *)
(* minute of 0..59: no plan on display was computed from such an input.    *)

\* two colon-separated numbers, an hour of the day and a minute of the hour
ValidClock(time) ==
  /\ Len(split(time)) = 2
  /\ Len(split(time)[1]) > 0
  /\ Len(split(time)[2]) > 0
  /\ Number(split(time)[1]) \in 0..23
  /\ Number(split(time)[2]) \in 0..59

InvalidTimeRejected ==
  \A j \in 1..Len(routeInput) :
    ~routeInput[j].flexibleTime
      => ValidClock(routeInput[j].startTime) /\ ValidClock(routeInput[j].endTime)

----------------------------------------------------------------------------
(* C15: totalDistance is the sum over the consecutive pairs of the         *)
(* displayed sequence of the distance between their locations, a pair with *)
(* a missing location counting 0; it is never negative, and it is 0 when   *)
(* at most one displayed stop has a location.                              *)

\* the consecutive pairs of dm with a location on both sides
LocatedLegs(dm) ==
  {i \in 1..(Len(dm) - 1) : HasClient(dm[i]) /\ HasClient(dm[i + 1])}

\* the sum of the lengths of a set of legs of dm
RECURSIVE SumOfLegs(_, _)
SumOfLegs(dm, legs) ==
  IF legs = {} THEN 0
  ELSE LET i == CHOOSE x \in legs : TRUE
       IN DistBetween(dm[i], dm[i + 1]) + SumOfLegs(dm, legs \ {i})

LocatedStops(dm) == {i \in 1..Len(dm) : HasClient(dm[i])}

\* total is the sum of the located legs of dm, and zero where it has to be
LegSum(dm, total) ==
  /\ total = SumOfLegs(dm, LocatedLegs(dm))
  /\ total >= 0
  /\ Cardinality(LocatedStops(dm)) <= 1 => total = 0

TotalDistanceIsLegSum == LegSum(displayMeetings, totalDistance)

\* dm has a leg that is skipped for a missing location next to a client
\* away from latitude 0
SkippedLeg(dm) ==
  \E i \in 1..(Len(dm) - 1) :
    /\ i \notin LocatedLegs(dm)
    /\ \E k \in {i, i + 1} : HasClient(dm[k]) /\ LocationOf(dm[k])[1] # 0

\* a displayed sequence with a leg that is skipped for a missing location
\* next to a far client, and a leg that counts
TotalDistanceWitness == totalDistance > 0 /\ SkippedLeg(displayMeetings)

----------------------------------------------------------------------------
(* C16: for a day with no or one eligible meeting the optimizer stores     *)
(* exactly the input: the same meetings, none added or dropped, none with  *)
(* a computed window; the distance and the travel time shown are zero, and *)
(* the empty day gives the empty plan.                                     *)

\* the plan is the input, stop by stop, without computed windows
SameAsInput(dm, plan) ==
  /\ Len(plan) = Len(dm)
  /\ \A i \in 1..Len(dm) :
       /\ plan[i].id = dm[i].id
       /\ plan[i].clientId = dm[i].clientId
       /\ plan[i].startTime = dm[i].startTime
       /\ plan[i].endTime = dm[i].endTime
       /\ plan[i].flexibleTime = dm[i].flexibleTime
       /\ plan[i].optimizedStartTime = Undefined
       /\ plan[i].optimizedEndTime = Undefined

\* the totals shown for a plan of the day's meetings dm are zero
ZeroTotals(dm, plan) ==
  /\ totalDistanceOf(displayMeetingsOf(plan, dm)) = 0
  /\ totalTravelTimeOf(totalDistanceOf(displayMeetingsOf(plan, dm))) = 0

ShortDayUnchanged ==
  [][Len(dayMeetings(meetings, selectedDate)) <= 1
       => /\ SameAsInput(dayMeetings(meetings, selectedDate), optimizedRoute')
          /\ ZeroTotals(dayMeetings(meetings, selectedDate), optimizedRoute')]_vars

\* the optimizer has run on a day with one eligible meeting, a flexible one,
\* next to a meeting that is not eligible
ShortDayWitness ==
  /\ Len(optimizedRoute) = 1
  /\ optimizedRoute[1].flexibleTime
  /\ Len(meetings) >= 2

----------------------------------------------------------------------------
(* C17: the apply action takes an update for every flexible stop of the    *)
(* plan, and when its last update has been saved every one of these        *)
(* meetings is stored with startTime and endTime equal to the computed     *)
(* window and flexibleTime = false, and a run of the optimizer on the      *)
(* stored meetings has it as a fixed stop at that time.                    *)

\* the update for the stop: its id and its computed window
UpdateFor(updates, stop) ==
  \E k \in 1..Len(updates) :
    /\ updates[k].id = stop.id
    /\ updates[k].startTime = stop.optimizedStartTime
    /\ updates[k].endTime = stop.optimizedEndTime

\* the meeting of the update is stored in ms with the update's times, fixed
StoredAs(ms, update) ==
  \E i \in 1..Len(ms) :
    /\ ms[i].id = update.id
    /\ ms[i].startTime = update.startTime
    /\ ms[i].endTime = update.endTime
    /\ ms[i].flexibleTime = FALSE

\* the plan has the meeting of the update as a fixed stop at the update's time
FixedIn(plan, update) ==
  \E i \in 1..Len(plan) :
    /\ plan[i].id = update.id
    /\ ~plan[i].isFlexible
    /\ plan[i].startTime = update.startTime
    /\ plan[i].endTime = update.endTime
    /\ plan[i].optimizedStartTime = Undefined

AppliedAll(updates, ms, plan) ==
  \A k \in 1..Len(updates) : StoredAs(ms, updates[k]) /\ FixedIn(plan, updates[k])

----------------------------------------------------------------------------
(* C18: the plan and the order in which the meetings are supplied.         *)

\* the meetings in another order
Permuted(ms, p) == [i \in 1..Len(ms) |-> ms[p[i]]]

\* the exchanges of two neighbours; every order is reached by a chain of them
Exchanges(n) ==
  {[i \in 1..n |-> IF i = k THEN k + 1 ELSE IF i = k + 1 THEN k ELSE i] :
     k \in 1..(n - 1)}

\* the plan for the meetings in another order
PlanOfPermuted(p) ==
  optimizedRouteOf(dayMeetings(Permuted(meetings, p), selectedDate))

\* the plan on display is the plan of the meetings as they are
PlanOfMeetings ==
  /\ routeInput # <<>>
  /\ routeInput = dayMeetings(meetings, selectedDate)

\* the claim as made: every order of the same meetings gives the same stops
\* in the same order with the same windows
OrderIndependent ==
  PlanOfMeetings =>
    \A p \in Permutations(1..Len(meetings)) : PlanOfPermuted(p) = optimizedRoute

\* the same stops, and the same fixed stops in the same order but for those
\* of equal start
SameStopsAndFixed(plan, other) ==
  /\ {plan[i].id : i \in 1..Len(plan)} = {other[i].id : i \in 1..Len(other)}
  /\ \A i \in 1..Len(plan) :
       ~plan[i].isFlexible => \E k \in 1..Len(other) : other[k] = plan[i]
  /\ \A i, j \in 1..Len(plan) :
       ( /\ i < j
         /\ ~plan[i].isFlexible /\ ~plan[j].isFlexible
         /\ plan[i].startTime # plan[j].startTime )
       => \E k, l \in 1..Len(other) :
            k < l /\ other[k] = plan[i] /\ other[l] = plan[j]

\* C18 as amended: every order of the same meetings gives a plan with the
\* same stops, and with the same fixed stops, unchanged and in the same
\* order but for fixed meetings of equal start; the order and the windows of
\* the flexible stops may depend on the order of the input
OrderIndependentFixed ==
  PlanOfMeetings =>
    \A p \in Exchanges(Len(meetings)) :
      SameStopsAndFixed(optimizedRoute, PlanOfPermuted(p))

\* a plan with two fixed stops of different start and a flexible stop, which
\* another order of the meetings changes
OrderWitness ==
  /\ PlanOfMeetings
  /\ \E i, j \in 1..StopCount :
       /\ i < j
       /\ ~optimizedRoute[i].isFlexible /\ ~optimizedRoute[j].isFlexible
       /\ optimizedRoute[i].startTime # optimizedRoute[j].startTime
  /\ \E p \in Permutations(1..Len(meetings)) : PlanOfPermuted(p) # optimizedRoute

----------------------------------------------------------------------------
(* C19: every flexible placement has a window of exactly 60 minutes that   *)
(* starts at the walk's current time (480 for the first stop, the end of   *)
(* the stop before it, or that end plus 15 for the first leftover behind   *)
(* the last fixed stop) plus the travel minutes from the stop before it,   *)
(* no travel for the first stop; the next placement goes on from its end   *)
(* and its location.                                                       *)

\* stop i is the first stop behind the last fixed stop
FirstLeftover(i) ==
  /\ i > 1
  /\ ~optimizedRoute[i - 1].isFlexible
  /\ \A k \in i..StopCount : optimizedRoute[k].isFlexible

\* currentTime when the walk turns to the placement of stop i
TimeBefore(i) ==
  IF i = 1 THEN 480
  ELSE IF FirstLeftover(i) THEN EndOf(optimizedRoute[i - 1]) + 15
  ELSE EndOf(optimizedRoute[i - 1])

\* the travel minutes to stop i from the stop before it
TravelTo(i) == calculateTravelTime(DistFrom(WalkLoc(i), optimizedRoute[i]))

PlacementWindow ==
  \A i \in 1..StopCount :
    HasWindow(optimizedRoute[i])
      => /\ StartOf(optimizedRoute[i]) = TimeBefore(i) + TravelTo(i)
         /\ EndOf(optimizedRoute[i]) = StartOf(optimizedRoute[i]) + 60

\* a placement in the gap between two fixed stops that is reached from a
\* fixed stop elsewhere
PlacementWitness ==
  \E i, j \in 2..StopCount :
    /\ InsertedBefore(i, j)
    /\ ~optimizedRoute[i - 1].isFlexible
    /\ TravelTo(i) > 0

----------------------------------------------------------------------------
(* C20: every call of the optimizer terminates. In each of the three while *)
(* loops (flexible-only, insertion, leftover) the turns taken and the      *)
(* candidates left in the pool add up to the size the pool had when the    *)
(* loop was entered, which is at most the number of flexible meetings of   *)
(* the day; every step made inside a loop either removes exactly one       *)
(* candidate from the pool or leaves the loop; and every call returns.     *)

InLoop(l) == l.kind \in {"flexibleOnly", "insertions", "remaining"}

PoolOf(l) == IF l.kind = "flexibleOnly" THEN l.unvisited ELSE l.remaining

FlexibleCount(dm) == Len(SelectSeq(dm, LAMBDA m : m.flexibleTime))

TurnsBounded(l, dm) ==
  InLoop(l) =>
    /\ l.turns + Len(PoolOf(l)) = l.size
    /\ l.size <= FlexibleCount(dm)

RemovesOne(pool, rest) ==
  \E k \in 1..Len(pool) :
    rest = SubSeq(pool, 1, k - 1) \o SubSeq(pool, k + 1, Len(pool))

TurnOrExit(l, after) ==
  InLoop(l) =>
    \/ after.kind \in {"walk", "done"}
    \/ /\ after.kind = l.kind
       /\ after.turns = l.turns + 1
       /\ RemovesOne(PoolOf(l), PoolOf(after))

LoopsTerminate ==
  /\ [](TurnsBounded(loop, routeInput))
  /\ [][TurnOrExit(loop, loop')]_vars
  /\ (timer # <<>>) ~> (timer = <<>> /\ loop.kind = "done")

\* the insertion loop has placed a meeting and finds no candidate that fits
\* among those left
LoopsTerminateWitness ==
  /\ loop.kind = "insertions"
  /\ loop.turns >= 1
  /\ InsertionLoopGuard(loop.remaining, loop.currentTime, loop.endTime)
  /\ bestIdxOf(loop) = 0

----------------------------------------------------------------------------
(* C21: the two time functions undo each other, without wrapping. For      *)
(* every minutes >= 0 of the model, past 1439 too, timeToMinutes reads     *)
(* back from minutesToTime(minutes) the same minutes, and the hour part of *)
(* the string is floor(minutes / 60) written with at least two digits; for *)
(* every zero-padded HH:MM string, minutesToTime writes back from          *)
(* timeToMinutes(time) the same string.                                    *)

HourPart(time) == split(time)[1]

FormattedBack(c) ==
  /\ timeToMinutes(c.time) = c.minutes
  /\ Number(HourPart(c.time)) = c.minutes \div 60
  /\ Len(HourPart(c.time)) >= 2

ParsedBack(c) == minutesToTime(c.minutes) = c.time

CodecRoundTrip ==
  /\ codec.kind = "formatted" => FormattedBack(codec)
  /\ codec.kind = "parsed" => ParsedBack(codec)

\* 1500 minutes are written as 25:00
CodecRoundTripWitness ==
  /\ codec.kind = "formatted"
  /\ codec.minutes = 1500
  /\ codec.time = <<"2", "5", ":", "0", "0">>

----------------------------------------------------------------------------
(* C22: in every plan a stop carries a computed window if and only if it   *)
(* is flagged as flexible.                                                 *)

WindowIffFlexible(plan) ==
  \A i \in 1..Len(plan) : plan[i].isFlexible <=> HasWindow(plan[i])

FlaggedAsMeeting(plan) ==
  \A i \in 1..Len(plan) : plan[i].isFlexible = plan[i].flexibleTime

NoWindows(plan) ==
  \A i \in 1..Len(plan) : ~HasWindow(plan[i])

WindowsByLocated(dm, plan) ==
  /\ FlaggedAsMeeting(plan)
  /\ IF Len(meetingClients(dm)) >= 2 THEN WindowIffFlexible(plan)
                                     ELSE NoWindows(plan)

----------------------------------------------------------------------------
(* C23: when two or more of the day's eligible meetings have a client      *)
(* record, the plan holds exactly those meetings, each of them once: as    *)
(* many stops as located meetings, and for every located meeting, fixed or *)
(* flexible, exactly one stop, with the fields of the meeting.             *)

StopsOf(plan, m) == {k \in 1..Len(plan) : plan[k].id = m.id}

SameMeeting(stop, m) ==
  /\ stop.id = m.id
  /\ stop.clientId = m.clientId
  /\ stop.date = m.date
  /\ stop.startTime = m.startTime
  /\ stop.endTime = m.endTime
  /\ stop.status = m.status
  /\ stop.type = m.type
  /\ stop.flexibleTime = m.flexibleTime

PlannedOnce(plan, m) ==
  /\ Cardinality(StopsOf(plan, m)) = 1
  /\ \A k \in StopsOf(plan, m) : SameMeeting(plan[k], m)

PermutationOf(plan, mcs) ==
  /\ Len(plan) = Len(mcs)
  /\ \A i \in 1..Len(mcs) : PlannedOnce(plan, mcs[i])

PlanOfLocated(dm, plan) ==
  Len(meetingClients(dm)) >= 2 => PermutationOf(plan, meetingClients(dm))

PlanIsPermutation == PlanOfLocated(routeInput, optimizedRoute)

\* three located meetings, the last stop a flexible one behind a fixed one
PlanIsPermutationWitness ==
  /\ Len(meetingClients(routeInput)) = 3
  /\ Len(optimizedRoute) = 3
  /\ ~optimizedRoute[2].isFlexible
  /\ optimizedRoute[3].isFlexible

----------------------------------------------------------------------------
(* C24: a flexible meeting is inserted before a fixed meeting f only when  *)
(* at least 90 minutes separate the currentTime of the walk, at the moment *)
(* the meeting is placed, from the start of f, whatever the distances.     *)

InsertionMargin ==
  \A i, j \in 1..StopCount :
    InsertedBefore(i, j)
      => TimeBefore(i) + 60 + 15 <= StartOf(optimizedRoute[j]) - 15

\* a second insertion into one gap, placed 100 minutes before the fixed
\* meeting
InsertionMarginWitness ==
  \E i, j \in 2..StopCount :
    /\ InsertedBefore(i, j)
    /\ InsertedBefore(i - 1, j)
    /\ TimeBefore(i) + 100 = StartOf(optimizedRoute[j])

----------------------------------------------------------------------------
(* C25: whenever the plan on display is not empty, every stop of it is a   *)
(* meeting of the meetings list as it is now that is on the selected date, *)
(* in person and not cancelled, also after the date or the meetings have   *)
(* changed while the timer was pending or after it has fired.              *)

EligibleNow(stop, ms, date) ==
  \E i \in 1..Len(ms) : ms[i].id = stop.id /\ Eligible(ms[i], date)

PlanOfSelection(plan, ms, date) ==
  \A k \in 1..Len(plan) : EligibleNow(plan[k], ms, date)

PlanMatchesSelection ==
  Len(optimizedRoute) > 0
    => PlanOfSelection(optimizedRoute, meetings, selectedDate)

----------------------------------------------------------------------------
(* C26: the lifecycle of an optimization. A timer is set only while        *)
(* isOptimizing is false and no timer or callback is under way, and        *)
(* setting it makes isOptimizing true; isOptimizing is true exactly while  *)
(* a timer is pending or its callback runs, so at most one optimization    *)
(* is pending; and on every branch of the callback isOptimizing returns to *)
(* false.                                                                  *)

InCall(l) == l.kind \notin {"none", "done"}

Pending(t, l) == t # <<>> \/ InCall(l)

TimerSet(t, after) == after # <<>> /\ after # t

ClickWhenIdle ==
  TimerSet(timer, timer') =>
    /\ ~isOptimizing
    /\ ~Pending(timer, loop)
    /\ isOptimizing'

Lifecycle ==
  /\ [][ClickWhenIdle]_vars
  /\ [](isOptimizing <=> Pending(timer, loop))
  /\ (isOptimizing ~> ~isOptimizing)

\* the callback has returned on its first branch: two meetings of the day,
\* one of them without a client record
LifecycleWitness ==
  /\ ~isOptimizing
  /\ loop.kind = "done"
  /\ Len(routeInput) >= 2
  /\ Len(meetingClients(routeInput)) <= 1

----------------------------------------------------------------------------
(* C27: optimizing, applying and optimizing again changes nothing. When    *)
(* the plan on display is the plan of the meetings the apply action        *)
(* started with, its fixed stops do not overlap one another, and the last  *)
(* of its computed windows has just been saved with all the others stored, *)
(* a run of the optimizer on the saved meetings yields the same stops in   *)
(* the same order, each with the window it has in the plan on display, and *)
(* none of them flagged as flexible.                                       *)

Disjoint(a, b) == EndOf(a) <= StartOf(b) \/ EndOf(b) <= StartOf(a)

FixedDisjoint(plan) ==
  \A i, j \in 1..Len(plan) :
    (i < j /\ ~plan[i].isFlexible /\ ~plan[j].isFlexible)
      => Disjoint(plan[i], plan[j])

\* the run of the apply action is on the plan, computed from the meetings
\* the run started with
RunOfPlan(plan, run, date) ==
  /\ run.updates = updatesOf(plan)
  /\ plan = optimizedRouteOf(dayMeetings(run.meetings, date))

Applied(plan, run, ms, date) ==
  /\ run.next = Len(run.updates)
  /\ RunOfPlan(plan, run, date)
  /\ FixedDisjoint(plan)
  /\ \A k \in 1..Len(run.updates) : StoredAs(ms, run.updates[k])

SameStop(again, stop) ==
  /\ again.id = stop.id
  /\ ~again.isFlexible
  /\ ~HasWindow(again)
  /\ StartOf(again) = StartOf(stop)
  /\ EndOf(again) = EndOf(stop)

SamePlan(plan, again) ==
  /\ Len(again) = Len(plan)
  /\ \A i \in 1..Len(plan) : SameStop(again[i], plan[i])

Idempotent(plan, run, ms, date) ==
  Applied(plan, run, ms, date)
    => SamePlan(plan, optimizedRouteOf(dayMeetings(ms, date)))

----------------------------------------------------------------------------
(* C28: applying the optimized times leaves the fixed meetings alone. The  *)
(* updates the apply action takes are the stops of the plan with a         *)
(* computed window, one update each and in the plan's order, none of them  *)
(* for a stop that is not flagged flexible; and while the updates of the   *)
(* plan on display are saved, a save leaves every meeting that is a fixed  *)
(* stop of the plan, and every meeting that is not in the plan, as it was. *)

\* the stops of the plan with a computed window
WindowStops(plan) == SelectSeq(plan, HasWindow)

ExactlyWindows(updates, plan, stops) ==
  /\ Len(updates) = Len(stops)
  /\ \A k \in 1..Len(stops) :
       /\ updates[k].id = stops[k].id
       /\ updates[k].startTime = stops[k].optimizedStartTime
       /\ updates[k].endTime = stops[k].optimizedEndTime
  /\ \A i \in 1..Len(plan) :
       ~plan[i].isFlexible
         => \A k \in 1..Len(updates) : updates[k].id # plan[i].id

\* the meeting is a fixed stop of the plan, or no stop of it
FixedOrAbsent(plan, m) ==
  \A i \in 1..Len(plan) : plan[i].id = m.id => ~plan[i].isFlexible

FrameOfSave(plan, ms, after) ==
  /\ Len(after) = Len(ms)
  /\ \A i \in 1..Len(ms) :
       FixedOrAbsent(plan, ms[i])
         => /\ after[i].id = ms[i].id
            /\ after[i].startTime = ms[i].startTime
            /\ after[i].endTime = ms[i].endTime
            /\ after[i].flexibleTime = ms[i].flexibleTime
            /\ after[i] = ms[i]

ApplyKeepsFixed ==
  [][/\ ApplyClick =>
          ExactlyWindows(saving'.updates, optimizedRoute,
                         WindowStops(optimizedRoute))
     /\ (SaveSucceeds /\ saving.updates = updatesOf(optimizedRoute)) =>
          FrameOfSave(optimizedRoute, meetings, meetings')]_vars

\* the windows of a plan have all been saved; the plan has a fixed stop,
\* stored as it is in the plan, and a meeting of the day is not in the plan
ApplyKeepsFixedWitness ==
  /\ saving = NotSaving
  /\ Len(updatesOf(optimizedRoute)) > 0
  /\ \A k \in 1..Len(updatesOf(optimizedRoute)) :
       StoredAs(meetings, updatesOf(optimizedRoute)[k])
  /\ \E i \in 1..Len(optimizedRoute) :
       /\ ~optimizedRoute[i].isFlexible
       /\ \E j \in 1..Len(meetings) :
            /\ meetings[j].id = optimizedRoute[i].id
            /\ meetings[j].startTime = optimizedRoute[i].startTime
            /\ meetings[j].endTime = optimizedRoute[i].endTime
  /\ \E j \in 1..Len(meetings) :
       \A i \in 1..Len(optimizedRoute) : optimizedRoute[i].id # meetings[j].id

----------------------------------------------------------------------------
(* C29: a failed update stops the run of handleUpdateMeetingTimes. On the  *)
(* step in which an update is rejected the run is over, so that no later   *)
(* update of it is attempted; the meeting of the rejected update and the   *)
(* meetings of the later updates are stored as they were; the updates      *)
(* before it are still stored; and isSaving, true from the click on, is    *)
(* false after the rejected update and after the last successful one.      *)

\* isSaving: a run of handleUpdateMeetingTimes is between its try and its
\* finally
IsSaving(run) == run # NotSaving

\* an update of the run can still be attempted
UpdatePending(run) == run.next <= Len(run.updates)

\* the meetings of the updates of the run from the given one on are in
\* after as they are in ms
SameFrom(run, from, ms, after) ==
  \A k \in from..Len(run.updates) :
    \A i \in 1..Len(ms) :
      ms[i].id = run.updates[k].id => after[i] = ms[i]

StoredBefore(run, ms) ==
  \A k \in 1..(run.next - 1) :
    found(run.meetings, run.updates[k].id) => StoredAs(ms, run.updates[k])

Stopped(run, after, ms, msAfter) ==
  /\ ~IsSaving(after)
  /\ ~UpdatePending(after)
  /\ Len(msAfter) = Len(ms)
  /\ SameFrom(run, run.next, ms, msAfter)
  /\ StoredBefore(run, ms)
  /\ StoredBefore(run, msAfter)

FailureStopsRun ==
  [][/\ SaveFails => Stopped(saving, saving', meetings, meetings')
     /\ ApplyClick => IsSaving(saving')
     /\ SaveSucceeds =>
          (IsSaving(saving') <=> saving.next < Len(saving.updates))]_vars

\* a run has ended on its second update: the first window of the plan is
\* stored, the meeting of the second is flexible as before
FailureStopsRunWitness ==
  /\ ~IsSaving(saving)
  /\ Len(updatesOf(optimizedRoute)) >= 2
  /\ StoredAs(meetings, updatesOf(optimizedRoute)[1])
  /\ \E i \in 1..Len(meetings) :
       /\ meetings[i].id = updatesOf(optimizedRoute)[2].id
       /\ meetings[i].flexibleTime
       /\ meetings[i].startTime # updatesOf(optimizedRoute)[2].startTime

====
